---- MODULE Spec2Model ----
(***************************************************************************)
(* A model of cfun.py: function composition by the <<, >> and | operators. *)
(*                                                                         *)
(* The program's objects live in `heap`: every _LeftFlowing/_RightFlowing  *)
(* instance is one cell holding the function the partial wraps, which is   *)
(* either the caller's function or the closure f of __lshift__/__rshift__  *)
(* (with the self and other it captured).  A user function is modelled by  *)
(* what it does when it is called (UserCall); a call returns an outcome:   *)
(* a returned value or a raised error, with the trace of the user          *)
(* functions that were called on the way.                                  *)
(*                                                                         *)
(* `hist` is the caller's record of how each object was made (the          *)
(* direction of its chain's first operator, the object it was made from,   *)
(* the operands combined so far); `last` is the latest operation and what  *)
(* it gave.  The program reads neither.                                    *)
(***************************************************************************)
EXTENDS Integers, Sequences, FiniteSets, TLC

VARIABLES heap, hist, last

vars == <<heap, hist, last>>

\* The number of composed-function objects the caller creates.
MaxObjs == 3

---------------------------------------------------------------------------
(* Values: callables, arguments, outcomes                                  *)

\* A callable operand: a user function (by name) or a heap object (by ref).
NoFn == [kind |-> "none", name |-> "", ref |-> 0]
UserFn(n) == [kind |-> "user", name |-> n, ref |-> 0]
ObjFn(r) == [kind |-> "obj", name |-> "", ref |-> r]

\* What a partial wraps: a user function, or a closure f with its captures.
Plain(n) == [kind |-> "user", name |-> n, self |-> 0, other |-> NoFn]
Closure(k, s, o) == [kind |-> k, name |-> "", self |-> s, other |-> o]

\* One argument pack: positional arguments and keyword arguments.
Pack(a, kw) == [args |-> a, kwargs |-> kw]
NoPack == Pack(<<>>, {})

Return(v, c) == [raised |-> FALSE, err |-> "", val |-> v, calls |-> c]
Raise(e, v, c) == [raised |-> TRUE, err |-> e, val |-> v, calls |-> c]

RECURSIVE SumSeq(_)
SumSeq(s) == IF s = <<>> THEN 0 ELSE Head(s) + SumSeq(Tail(s))

RECURSIVE SumKw(_)
SumKw(kw) ==
    IF kw = {} THEN 0
    ELSE LET p == CHOOSE q \in kw : TRUE IN p[2] + SumKw(kw \ {p})

\* The caller's functions.  double, increment, ident and boom take exactly one
\* positional argument (anything else is the language's TypeError); boom raises
\* ValueError carrying its argument; spread takes any arguments.
UserResult(n, a, kw) ==
    IF n = "spread" THEN [raised |-> FALSE, err |-> "", val |-> SumSeq(a) + 10 * SumKw(kw)]
    ELSE IF Len(a) # 1 \/ kw # {} THEN [raised |-> TRUE, err |-> "TypeError", val |-> Len(a)]
    ELSE IF n = "double" THEN [raised |-> FALSE, err |-> "", val |-> 2 * a[1]]
    ELSE IF n = "increment" THEN [raised |-> FALSE, err |-> "", val |-> a[1] + 1]
    ELSE IF n = "ident" THEN [raised |-> FALSE, err |-> "", val |-> a[1]]
    ELSE [raised |-> TRUE, err |-> "ValueError", val |-> a[1]]

\* Calling a user function: its outcome, with the call itself as the trace.
UserCall(n, a, kw) ==
    LET r == UserResult(n, a, kw)
        c == <<[fn |-> n, args |-> a, kwargs |-> kw]>>
    IN IF r.raised THEN Raise(r.err, r.val, c) ELSE Return(r.val, c)

---------------------------------------------------------------------------
(* The program: cfun.py                                                    *)

\* functools.partial.__new__, which both classes inherit: given a partial (an
\* instance of either class) it wraps that partial's own function, given any
\* other callable it wraps the callable.
PartialFunc(h, func) ==
    IF func.kind = "obj" THEN h[func.ref].func ELSE Plain(func.name)

\* The outcome of a binary operator: the heap after it, and whether it raised.
Made(h, cls, fn) ==
    [raised |-> FALSE, err |-> "", heap |-> Append(h, [cls |-> cls, func |-> fn]),
     calls |-> <<>>]
Unsupported(h) ==
    [raised |-> TRUE, err |-> "TypeError", heap |-> h, calls |-> <<>>]

\* Faulty variants of the definitions that follow them (here and below), each
\* with one plausible bug; the properties at the end are checked against them too.
LeftFlowing_lshift_right(h, self, other) ==
    Made(h, "_RightFlowing", Closure("f_lshift", self, other))

RightFlowing_rshift_inplace(h, self, other) ==
    [raised |-> FALSE, err |-> "",
     heap |-> Append([h EXCEPT ![self].func = Closure("f_rshift", Len(h) + 1, other)],
                     [cls |-> "_RightFlowing", func |-> h[self].func]),
     calls |-> <<>>]

RightFlowing_or_lshift(h, self, other) ==
    Made(h, "_RightFlowing", Closure("f_lshift", self, other))

\* _Compositor.__lshift__, __rshift__ and __or__.
Compositor_lshift(h, func) == Made(h, "_LeftFlowing", PartialFunc(h, func))

Compositor_rshift(h, func) == Made(h, "_RightFlowing", PartialFunc(h, func))

Compositor_or(h, func) == Compositor_rshift(h, func)

\* _LeftFlowing.__lshift__: a new _LeftFlowing around the closure f.
LeftFlowing_lshift(h, self, other) ==
    Made(h, "_LeftFlowing", Closure("f_lshift", self, other))

\* _RightFlowing.__rshift__ and __or__: a new _RightFlowing around the closure f.
RightFlowing_rshift(h, self, other) ==
    Made(h, "_RightFlowing", Closure("f_rshift", self, other))

RightFlowing_or(h, self, other) == RightFlowing_rshift(h, self, other)

RECURSIVE PartialCall(_, _, _)
RECURSIVE CallValue(_, _, _)
RECURSIVE LeftFlowing_f(_, _, _, _)
RECURSIVE RightFlowing_f(_, _, _, _)

LeftFlowing_f_outward(h, self, other, p) ==
    LET inner == PartialCall(h, self, p)
    IN IF inner.raised THEN inner
       ELSE LET outer == CallValue(h, other, Pack(<<inner.val>>, {}))
            IN [outer EXCEPT !.calls = inner.calls \o @]

LeftFlowing_f_wrapping(h, self, other, p) ==
    LET inner == CallValue(h, other, p)
    IN IF inner.raised THEN [inner EXCEPT !.err = "RuntimeError"]
       ELSE LET outer == PartialCall(h, self, Pack(<<inner.val>>, {}))
            IN [outer EXCEPT !.calls = inner.calls \o @]

RightFlowing_f_inward(h, self, other, p) ==
    LET inner == CallValue(h, other, p)
    IN IF inner.raised THEN inner
       ELSE LET outer == PartialCall(h, self, Pack(<<inner.val>>, {}))
            IN [outer EXCEPT !.calls = inner.calls \o @]

RightFlowing_f_kwargs(h, self, other, p) ==
    LET inner == PartialCall(h, self, p)
    IN IF inner.raised THEN inner
       ELSE LET outer == CallValue(h, other, Pack(<<inner.val>>, p.kwargs))
            IN [outer EXCEPT !.calls = inner.calls \o @]

RightFlowing_f_twice(h, self, other, p) ==
    LET inner == PartialCall(h, self, p)
    IN IF inner.raised THEN inner
       ELSE LET outer == CallValue(h, other, Pack(<<inner.val>>, {}))
            IN [outer EXCEPT !.calls = inner.calls \o inner.calls \o @]

CallValue_last(h, c, p) ==
    IF c.kind = "obj"
    THEN IF h[c.ref].func.kind = "user" THEN PartialCall(h, c.ref, p)
         ELSE CallValue(h, h[c.ref].func.other, p)
    ELSE UserCall(c.name, p.args, p.kwargs)

\* The closure of _LeftFlowing.__lshift__: self(other(*args, **kwargs)).  An
\* error raised by other leaves the call at once.
LeftFlowing_f(h, self, other, p) ==
    LET inner == CallValue(h, other, p)
    IN IF inner.raised THEN inner
       ELSE LET outer == PartialCall(h, self, Pack(<<inner.val>>, {}))
            IN [outer EXCEPT !.calls = inner.calls \o @]

\* The closure of _RightFlowing.__rshift__: other(self(*args, **kwargs)).
RightFlowing_f(h, self, other, p) ==
    LET inner == PartialCall(h, self, p)
    IN IF inner.raised THEN inner
       ELSE LET outer == CallValue(h, other, Pack(<<inner.val>>, {}))
            IN [outer EXCEPT !.calls = inner.calls \o @]

\* Calling an instance of either class: partial.__call__ with no stored
\* arguments calls the wrapped function with the call's own arguments.
PartialCall(h, r, p) ==
    LET fn == h[r].func
    IN CASE fn.kind = "user" -> UserCall(fn.name, p.args, p.kwargs)
         [] fn.kind = "f_lshift" -> LeftFlowing_f(h, fn.self, fn.other, p)
         [] fn.kind = "f_rshift" -> RightFlowing_f(h, fn.self, fn.other, p)

\* Calling an operand: a user function or an instance of either class.
CallValue(h, c, p) ==
    IF c.kind = "obj" THEN PartialCall(h, c.ref, p)
    ELSE UserCall(c.name, p.args, p.kwargs)

\* The class of a left operand: 0 is cfun, the _Compositor instance.
cfun == 0
ClassOf(h, left) == IF left = cfun THEN "_Compositor" ELSE h[left].cls

Methods_both(cls) ==
    CASE cls = "_Compositor" -> {"<<", ">>", "|"}
      [] cls = "_LeftFlowing" -> {"<<", ">>", "|"}
      [] cls = "_RightFlowing" -> {"<<", ">>", "|"}

\* The operator methods each class defines.  No class here and no function
\* defines a reflected method (__rlshift__, __rrshift__, __ror__).
Methods(cls) ==
    CASE cls = "_Compositor" -> {"<<", ">>", "|"}
      [] cls = "_LeftFlowing" -> {"<<"}
      [] cls = "_RightFlowing" -> {">>", "|"}

\* left <spell> right, as the language dispatches it: the left operand's
\* method if its class defines one, the unsupported-operand TypeError if not.
BinaryOp(h, spell, left, right) ==
    LET cls == ClassOf(h, left)
    IN IF spell \notin Methods(cls) THEN Unsupported(h)
       ELSE IF left = cfun
            THEN CASE spell = "<<" -> Compositor_lshift(h, right)
                   [] spell = ">>" -> Compositor_rshift(h, right)
                   [] spell = "|" -> Compositor_or(h, right)
       ELSE IF spell = "<<" THEN LeftFlowing_lshift(h, left, right)
       ELSE IF spell = ">>" THEN RightFlowing_rshift(h, left, right)
       ELSE RightFlowing_or(h, left, right)

---------------------------------------------------------------------------
(* The caller: what it combines and what it calls                          *)

\* The functions and the argument packs the caller uses.
Funcs == {"double", "increment"}
FuncsErr == {"increment", "boom"}
FuncsArgs == {"spread", "ident"}
FuncsAssoc == {"double", "increment"}
Inputs ==
    {Pack(<<1>>, {}), Pack(<<3>>, {}), Pack(<<1, 2>>, {<<"k", 5>>})}

UserFns(FS) == {UserFn(n) : n \in FS}

\* The direction the caller asked for with the first operator of a chain.
DirOf(spell) == IF spell = "<<" THEN "L" ELSE "R"

\* The record of the latest operation.
NoOp ==
    [op |-> "none", target |-> 0, operand |-> NoFn, pack |-> NoPack,
     raised |-> FALSE, err |-> "", val |-> 0, calls |-> <<>>, new |-> 0]

Init ==
    /\ heap = <<>>
    /\ hist = <<>>
    /\ last = NoOp

\* left <spell> right.  hist keeps, for every object made, the direction of
\* the chain's first operator, the left operand it was made from and the
\* operands combined so far, in order.
Combine(spell, left, right) ==
    LET r == BinaryOp(heap, spell, left, right)
        made == Len(r.heap) > Len(heap)
        dir == IF left = cfun THEN DirOf(spell) ELSE hist[left].dir
        ops == IF left = cfun THEN <<>> ELSE hist[left].ops
    IN /\ heap' = r.heap
       /\ hist' = IF made
                  THEN Append(hist, [dir |-> dir, from |-> left, ops |-> ops \o <<right>>])
                  ELSE hist
       /\ last' = [op |-> spell, target |-> left, operand |-> right,
                   pack |-> NoPack, raised |-> r.raised, err |-> r.err, val |-> 0,
                   calls |-> r.calls, new |-> IF made THEN Len(r.heap) ELSE 0]

Rights == {i \in 1..Len(heap) : hist[i].dir = "R"}
Lefts == {i \in 1..Len(heap) : hist[i].dir = "L"}

\* The caller makes at most N objects.
\* cfun >> f, cfun | f, cfun << f
CompositorRshift(Ops, N) ==
    /\ Len(heap) < N
    /\ \E f \in Ops : Combine(">>", cfun, f)

CompositorOr(Ops, N) ==
    /\ Len(heap) < N
    /\ \E f \in Ops : Combine("|", cfun, f)

CompositorLshift(Ops, N) ==
    /\ Len(heap) < N
    /\ \E f \in Ops : Combine("<<", cfun, f)

\* g >> f and g | f on a rightward chain g, g << f on a leftward chain g
RightRshift(Ops, N) ==
    /\ Len(heap) < N
    /\ \E g \in Rights, f \in Ops : Combine(">>", g, f)

RightOr(Ops, N) ==
    /\ Len(heap) < N
    /\ \E g \in Rights, f \in Ops : Combine("|", g, f)

LeftLshift(Ops, N) ==
    /\ Len(heap) < N
    /\ \E g \in Lefts, f \in Ops : Combine("<<", g, f)

\* The operator of the other direction: g << f on a rightward chain, g >> f
\* and g | f on a leftward chain.
RightLshift(Ops) == \E g \in Rights, f \in Ops : Combine("<<", g, f)

LeftRshift(Ops) == \E g \in Lefts, f \in Ops : Combine(">>", g, f)

LeftOr(Ops) == \E g \in Lefts, f \in Ops : Combine("|", g, f)

\* g(*args, **kwargs)
Invoke ==
    \E g \in 1..Len(heap), p \in Inputs :
        LET r == PartialCall(heap, g, p)
        IN /\ last' = [op |-> "call", target |-> g, operand |-> NoFn, pack |-> p,
                       raised |-> r.raised, err |-> r.err, val |-> r.val,
                       calls |-> r.calls, new |-> 0]
           /\ UNCHANGED <<heap, hist>>

\* Every operation, with the caller drawing its functions from Funcs.
Next ==
    \/ CompositorRshift(UserFns(Funcs), MaxObjs)
    \/ CompositorOr(UserFns(Funcs), MaxObjs)
    \/ CompositorLshift(UserFns(Funcs), MaxObjs)
    \/ RightRshift(UserFns(Funcs), MaxObjs)
    \/ RightOr(UserFns(Funcs), MaxObjs)
    \/ LeftLshift(UserFns(Funcs), MaxObjs)
    \/ RightLshift(UserFns(Funcs))
    \/ LeftRshift(UserFns(Funcs))
    \/ LeftOr(UserFns(Funcs))
    \/ Invoke

Spec == Init /\ [][Next]_vars

\* The same operations with a function that raises among the caller's.
NextErr ==
    \/ CompositorRshift(UserFns(FuncsErr), MaxObjs)
    \/ CompositorOr(UserFns(FuncsErr), MaxObjs)
    \/ CompositorLshift(UserFns(FuncsErr), MaxObjs)
    \/ RightRshift(UserFns(FuncsErr), MaxObjs)
    \/ RightOr(UserFns(FuncsErr), MaxObjs)
    \/ LeftLshift(UserFns(FuncsErr), MaxObjs)
    \/ RightLshift(UserFns(FuncsErr))
    \/ LeftRshift(UserFns(FuncsErr))
    \/ LeftOr(UserFns(FuncsErr))
    \/ Invoke

SpecErr == Init /\ [][NextErr]_vars

\* The same operations with functions of any arguments among the caller's.
NextArgs ==
    \/ CompositorRshift(UserFns(FuncsArgs), MaxObjs)
    \/ CompositorOr(UserFns(FuncsArgs), MaxObjs)
    \/ CompositorLshift(UserFns(FuncsArgs), MaxObjs)
    \/ RightRshift(UserFns(FuncsArgs), MaxObjs)
    \/ RightOr(UserFns(FuncsArgs), MaxObjs)
    \/ LeftLshift(UserFns(FuncsArgs), MaxObjs)
    \/ RightLshift(UserFns(FuncsArgs))
    \/ LeftRshift(UserFns(FuncsArgs))
    \/ LeftOr(UserFns(FuncsArgs))
    \/ Invoke

SpecArgs == Init /\ [][NextArgs]_vars

\* Composed functions as right operands.  The caller builds
\*   1: cfun >> g    2: (1) >> h    3: cfun >> (2)    4: cfun >> f
\*   5: (4) >> (2)   6: (4) >> g'   7: (6) >> h'
\* with any functions f, g, h, g', h' of FuncsAssoc, and calls what it has built.
AssocPlan ==
    <<[from |-> 0, arg |-> 0], [from |-> 1, arg |-> 0], [from |-> 0, arg |-> 2],
      [from |-> 0, arg |-> 0], [from |-> 4, arg |-> 2], [from |-> 4, arg |-> 0],
      [from |-> 6, arg |-> 0]>>

InPlan(hs) ==
    /\ Len(hs) <= Len(AssocPlan)
    /\ \A k \in 1..Len(hs) :
        LET o == hs[k].ops[Len(hs[k].ops)]
        IN /\ hs[k].from = AssocPlan[k].from
           /\ IF AssocPlan[k].arg = 0 THEN o.kind = "user"
              ELSE o = ObjFn(AssocPlan[k].arg)

AssocOps == UserFns(FuncsAssoc) \cup {ObjFn(i) : i \in 1..Len(heap)}

NextAssoc ==
    \/ CompositorRshift(AssocOps, Len(AssocPlan)) /\ InPlan(hist')
    \/ RightRshift(AssocOps, Len(AssocPlan)) /\ InPlan(hist')
    \/ Invoke

SpecAssoc == Init /\ [][NextAssoc]_vars

---------------------------------------------------------------------------
(* What the caller expects: the nested call written by hand                *)

Out(r) == [raised |-> r.raised, err |-> r.err, val |-> r.val]

\* The user functions an object stands for, in the order they are to run: the
\* operands in the order combined for a rightward chain, in the opposite
\* order for a leftward one; a composed operand stands for its own functions.
RECURSIVE FlatOps(_, _, _)
FlatOps(hs, ops, dir) ==
    IF ops = <<>> THEN <<>>
    ELSE LET o == Head(ops)
             first == IF o.kind = "user" THEN <<o.name>>
                      ELSE FlatOps(hs, hs[o.ref].ops, hs[o.ref].dir)
             rest == FlatOps(hs, Tail(ops), dir)
         IN IF dir = "R" THEN first \o rest ELSE rest \o first

ExecOrder(i) == FlatOps(hist, hist[i].ops, hist[i].dir)

\* fs[n](...fs[2](fs[1](*args, **kwargs))), evaluated innermost first.
RECURSIVE Nested(_, _)
Nested(fs, p) ==
    IF Len(fs) = 1 THEN Out(UserCall(fs[1], p.args, p.kwargs))
    ELSE LET inner == Nested(SubSeq(fs, 1, Len(fs) - 1), p)
         IN IF inner.raised THEN inner
            ELSE Out(UserCall(fs[Len(fs)], <<inner.val>>, {}))

\* The user functions combined into object i, in the order combined.
Combined(i) == [k \in 1..Len(hist[i].ops) |-> hist[i].ops[k].name]
Reverse(q) == [k \in 1..Len(q) |-> q[Len(q) + 1 - k]]
IsPrefix(a, b) == Len(a) <= Len(b) /\ \A k \in 1..Len(a) : a[k] = b[k]

\* The heap after cfun >> ops[1] >> ... >> ops[n], built from nothing.
RECURSIVE RshiftOnly(_)
RshiftOnly(ops) ==
    IF Len(ops) = 1 THEN BinaryOp(<<>>, ">>", cfun, ops[1]).heap
    ELSE LET h == RshiftOnly(SubSeq(ops, 1, Len(ops) - 1))
         IN BinaryOp(h, ">>", Len(h), ops[Len(ops)]).heap

\* What the k-th user function called by the latest operation did.
Did(k) == UserResult(last.calls[k].fn, last.calls[k].args, last.calls[k].kwargs)

ClsOf(dir) == IF dir = "R" THEN "_RightFlowing" ELSE "_LeftFlowing"
Spells == {"<<", ">>", "|"}
\* The latest operation combined in the direction its left operand supports.
SameDirection ==
    /\ last.op \in Spells
    /\ (last.target = cfun \/ DirOf(last.op) = hist[last.target].dir)
Called == last.op = "call"
UserOnly(i) == \A k \in 1..Len(hist[i].ops) : hist[i].ops[k].kind = "user"
OneArg(p) == Len(p.args) = 1 /\ p.kwargs = {}

---------------------------------------------------------------------------
(* The claims                                                              *)

\* C1: rightward composition applies the functions in construction order.
\* Calling the object built by cfun >> f1 >> ... >> fn with one argument x
\* gives what fn(...f2(f1(x))) gives: the function combined first runs first.
C1_RightwardOrder ==
    (Called /\ hist[last.target].dir = "R" /\ OneArg(last.pack))
        => Out(last) = Nested(Combined(last.target), last.pack)

\* (cfun >> double >> increment)(3) == 7
C1_Witness ==
    /\ Called /\ hist[last.target].dir = "R"
    /\ Combined(last.target) = <<"double", "increment">>
    /\ last.pack = Pack(<<3>>, {})
    /\ ~last.raised /\ last.val = 7

\* C2: leftward composition applies the functions in reverse construction
\* order.  Calling the object built by cfun << f1 << ... << fn with one
\* argument x gives what f1(f2(...fn(x))) gives: the function combined last
\* runs first, on x, and the one combined first runs last.
C2_LeftwardOrder ==
    (Called /\ hist[last.target].dir = "L" /\ OneArg(last.pack))
        => Out(last) = Nested(Reverse(Combined(last.target)), last.pack)

\* (cfun << double << increment)(3) == 8
C2_Witness ==
    /\ Called /\ hist[last.target].dir = "L"
    /\ Combined(last.target) = <<"double", "increment">>
    /\ last.pack = Pack(<<3>>, {})
    /\ ~last.raised /\ last.val = 8

\* C3: | is an alias of >> at every position of a rightward chain.  Whenever
\* | is applied to cfun or to a rightward object (itself built with any
\* mixture of | and >>), it succeeds, and the object it makes gives on every
\* input what the chain of the same functions built with >> alone gives.
C3_PipeAlias ==
    (last.op = "|" /\ SameDirection)
        => /\ ~last.raised
           /\ last.new = Len(heap)
           /\ LET h == RshiftOnly(hist[last.new].ops)
              IN \A p \in Inputs :
                    Out(PartialCall(heap, last.new, p)) = Out(PartialCall(h, Len(h), p))

\* g | double, for g built from double and increment in that order
C3_Witness ==
    /\ last.op = "|" /\ last.target # cfun /\ last.new = Len(heap)
    /\ Combined(last.new) = <<"double", "increment", "double">>

\* C4: errors pass through unchanged, and only at a call.  If a function
\* reached during the call of a chain (of either direction) raises, the call
\* raises that very error (kind and message), and a call raises no error other
\* than one a function of the chain raised; combining in the chain's direction
\* never raises, whatever the function added.
C4_ErrorsPassThrough ==
    /\ Called =>
        /\ \A k \in 1..Len(last.calls) :
              Did(k).raised => Out(last) = Did(k)
        /\ last.raised => \E k \in 1..Len(last.calls) : Did(k).raised
    /\ SameDirection => (~last.raised /\ last.new = Len(heap))

\* boom raises in the middle of a chain of three
C4_Witness ==
    /\ Called /\ last.raised /\ last.err = "ValueError"
    /\ Len(hist[last.target].ops) = 3 /\ Len(last.calls) = 2
    /\ hist[last.target].ops[2] = UserFn("boom")

\* C5: combining does not mutate.  No operation changes what an existing
\* object gives on any input (so an object extended several times, into
\* separate branches, still gives what it gave), and cfun combined with f
\* always makes a fresh one-function chain that gives what f gives.
C5_CombineDoesNotMutate ==
    [][/\ Len(heap') >= Len(heap)
       /\ heap' # heap =>
             \A g \in 1..Len(heap), p \in Inputs :
                PartialCall(heap', g, p) = PartialCall(heap, g, p)
       /\ (last'.op \in Spells /\ last'.target = cfun)
             => /\ last'.new = Len(heap) + 1
                /\ Len(heap') = Len(heap) + 1
                /\ \A p \in Inputs :
                      PartialCall(heap', last'.new, p) = CallValue(heap', last'.operand, p)
      ]_vars

\* g called after it was extended into two different branches
C5_Witness ==
    /\ Called
    /\ \E i, j \in 1..Len(heap) :
          /\ i # j /\ hist[i].from = last.target /\ hist[j].from = last.target
          /\ hist[i].ops # hist[j].ops

\* C6: mixing directions is rejected.  << on a rightward object, and >> or |
\* on a leftward one, with a function as right operand, raises the language's
\* TypeError, makes no object, and leaves every existing object giving what
\* it gave.
C6_MixedDirectionRejected ==
    [][(/\ last'.op \in Spells /\ last'.target # cfun
        /\ DirOf(last'.op) # hist[last'.target].dir)
          => /\ last'.raised /\ last'.err = "TypeError" /\ last'.new = 0
             /\ Len(heap') = Len(heap)
             /\ heap' # heap =>
                   \A g \in 1..Len(heap), p \in Inputs :
                      PartialCall(heap', g, p) = PartialCall(heap, g, p)
      ]_vars

\* g | f raised on a leftward g of two functions
C6_Witness ==
    /\ last.op = "|" /\ last.target # cfun /\ last.raised
    /\ hist[last.target].dir = "L" /\ Len(hist[last.target].ops) = 2

\* C7: rightward composition is associative over composed operands.  A
\* rightward object made with a composed function as a right operand gives,
\* on every input, what the object made from the same functions one at a
\* time gives: ((cfun >> f) >> g) >> h and (cfun >> f) >> (cfun >> g >> h).
C7_Associative ==
    \A c, d \in 1..Len(heap) :
        (/\ hist[c].dir = "R" /\ hist[d].dir = "R"
         /\ ~UserOnly(c) /\ UserOnly(d)
         /\ ExecOrder(c) = ExecOrder(d))
            => \A p \in Inputs :
                  Out(PartialCall(heap, c, p)) = Out(PartialCall(heap, d, p))

\* (cfun >> double) >> (cfun >> increment >> double) called on 3, with
\* ((cfun >> double) >> increment) >> double built beside it
C7_Witness ==
    /\ Len(heap) = 7 /\ Called /\ last.target = 5
    /\ hist[5].ops = <<UserFn("double"), ObjFn(2)>>
    /\ ExecOrder(5) = <<"double", "increment", "double">>
    /\ Combined(7) = ExecOrder(5)
    /\ last.pack = Pack(<<3>>, {}) /\ last.val = 14

\* C8: argument passing along a chain.  In a call of a chain of either
\* direction only the function that runs first receives the call's positional
\* and keyword arguments, all of them; each later one receives one positional
\* argument, the result before it, and no keyword argument; the call gives
\* what the function that ran last gave.  A one-function chain gives what its
\* function gives on the same arguments, and (cfun >> ident)(x) == x.
C8_ArgumentPassing ==
    Called =>
        /\ Len(last.calls) >= 1
        /\ last.calls[1].fn = ExecOrder(last.target)[1]
        /\ last.calls[1].args = last.pack.args
        /\ last.calls[1].kwargs = last.pack.kwargs
        /\ \A k \in 2..Len(last.calls) :
              /\ last.calls[k].args = <<Did(k - 1).val>>
              /\ last.calls[k].kwargs = {}
        /\ Out(last) = Did(Len(last.calls))
        /\ Len(hist[last.target].ops) = 1
              => Out(last) = Out(UserCall(hist[last.target].ops[1].name,
                                          last.pack.args, last.pack.kwargs))
        /\ (hist[last.target].ops = <<UserFn("ident")>> /\ OneArg(last.pack))
              => (~last.raised /\ last.val = last.pack.args[1])

\* spread(1, 2, k=5) runs first in a chain of two, ident after it
C8_Witness ==
    /\ Called /\ last.pack = Pack(<<1, 2>>, {<<"k", 5>>})
    /\ ExecOrder(last.target) = <<"spread", "ident">>
    /\ Len(last.calls) = 2 /\ ~last.raised

\* C9: the direction of a chain is fixed.  Every object made has the class of
\* the direction of its chain's first operator (>> or | rightward, <<
\* leftward), an object made from an object has that object's class, and the
\* class of an object defines the operators of one direction only.
C9_DirectionFixed ==
    \A i \in 1..Len(heap) :
        /\ heap[i].cls = ClsOf(hist[i].dir)
        /\ hist[i].from # cfun => heap[i].cls = heap[hist[i].from].cls
        /\ Methods(heap[i].cls) = (IF hist[i].dir = "R" THEN {">>", "|"} ELSE {"<<"})

\* a leftward chain extended twice
C9_Witness ==
    /\ Len(heap) = 3 /\ last.op = "<<" /\ last.new = 3
    /\ hist[3].from = 2 /\ hist[2].from = 1 /\ hist[1].dir = "L"

\* C10: call discipline.  No combine calls a user function.  One call of a
\* chain calls its functions in the chain's order (construction order
\* rightward, the reverse leftward), each at most once: all of them when none
\* raises, and when one raises, those before it and none after it.
C10_CallDiscipline ==
    /\ last.op \in Spells => last.calls = <<>>
    /\ Called =>
        /\ IsPrefix([k \in 1..Len(last.calls) |-> last.calls[k].fn],
                    ExecOrder(last.target))
        /\ \A k \in 1..(Len(last.calls) - 1) : ~Did(k).raised
        /\ ~last.raised => Len(last.calls) = Len(hist[last.target].ops)
        /\ last.raised => (Len(last.calls) >= 1 /\ Did(Len(last.calls)).raised)

\* in a leftward chain of three, the function combined second raises, and the
\* one combined first is not called
C10_Witness ==
    /\ Called /\ last.raised /\ hist[last.target].dir = "L"
    /\ Len(hist[last.target].ops) = 3 /\ Len(last.calls) = 2
    /\ last.calls[2].fn = "boom" /\ last.calls[1].fn = "increment"

====
